---------------------------- MODULE Spec2Model ----------------------------
(***************************************************************************)
(* The code-generation core of the redscript compiler:                     *)
(*   compiler/src/assembler.rs   Assembler (emitter, call encoder,         *)
(*                               label resolver, from_body)                *)
(*   compiler/src/diagnostics.rs Diagnostic severity                       *)
(*                                                                         *)
(* The emitter is a recursive function of the typed body, so each match    *)
(* arm of Assembler::assemble is a RECURSIVE operator that threads the     *)
(* assembler state st = [instructions, labels, err, shl]; the actions are  *)
(* the steps of from_body.  Every instruction carries, besides its         *)
(* operands, the path `at` of the expression whose arm emitted it, so      *)
(* that properties of the stream can name the expression they are about.   *)
(***************************************************************************)
EXTENDS Integers, Sequences, FiniteSets

VARIABLES
    body,          \* the typed body handed to from_body (Seq<TypedAst>)
    pc,            \* position inside from_body
    instructions,  \* Assembler.instructions : Vec<Instr<Label>>
    labels,        \* Assembler.labels : usize
    error,         \* "ok", or the Cause from_body returned / the panic
    code,          \* the Code<Offset> from_body returned (<<>> before)
    input,         \* the Error handed to Diagnostic::from_error, or NoError
    diagnostic,    \* the Diagnostic at hand, or NoDiagnostic
    level          \* the level Diagnostic::log reported at, "none" before
                   \* ("rejected" once from_error has handed the error back)

vars == <<body, pc, instructions, labels, error, code, input, diagnostic, level>>

\* the variables of the diagnostics, which the assembler leaves alone
diag == <<input, diagnostic, level>>
\* ... and those of the assembler
asm == <<body, pc, instructions, labels, error, code>>

NoLabel == -1

(***************************************************************************)
(* Instructions.  l1, l2 are the label operands (NoLabel when absent), x   *)
(* the integer immediate the properties read (invoke_flags, U32Const       *)
(* value, Construct argument count; 0 otherwise).                          *)
(***************************************************************************)
Instr(op, l1, l2, x, at) ==
    [op |-> op, l1 |-> l1, l2 |-> l2, x |-> x, at |-> at]

Op(op, at) == Instr(op, NoLabel, NoLabel, 0, at)

NewAssembler(shl) ==
    [instructions |-> <<>>, labels |-> 0, err |-> "ok", shl |-> shl]

Live(st) == st.err = "ok"

Fail(st, cause) == IF Live(st) THEN [st EXCEPT !.err = cause] ELSE st

Emit(st, instr) ==
    IF Live(st) THEN [st EXCEPT !.instructions = Append(@, instr)] ELSE st

EmitLabel(st, label, at) == Emit(st, Instr("Target", label, NoLabel, 0, at))

\* new_label returns Label { index: self.labels } (read st.labels before the
\* call) and increments the counter.
\* new_label without `self.labels += 1`
NewLabelNoCount(st) == st

NewLabel(st) == IF Live(st) THEN [st EXCEPT !.labels = @ + 1] ELSE st

(***************************************************************************)
(* type_of is the typechecker's; the typed AST carries its answer in the   *)
(* field ty ("Err" when type_of returns an error).                         *)
(***************************************************************************)
TypeOf(e) == IF "ty" \in DOMAIN e THEN e.ty ELSE "Void"

RECURSIVE IsEmpty(_)
IsEmpty(e) ==
    /\ e.k = "Seq"
    /\ \A j \in 1..Len(e.exprs) : IsEmpty(e.exprs[j])

IsEmptyBody(es) == \A j \in 1..Len(es) : IsEmpty(es[j])

RECURSIVE Assemble(_, _, _, _)
RECURSIVE AssembleSeqFrom(_, _, _, _, _, _)
RECURSIVE SwitchWhile(_, _, _, _, _, _)
RECURSIVE SwitchFor(_, _, _, _, _, _, _)
RECURSIVE AssembleArgs(_, _, _, _, _)
RECURSIVE AssembleAll(_, _, _, _)

\* assemble_seq over the statements es, which are the children
\* base + 10 + j of the expression at path `at`.
AssembleSeqFrom(st, es, j, exit, at, base) ==
    IF ~Live(st) \/ j > Len(es)
    THEN st
    ELSE AssembleSeqFrom(Assemble(st, es[j], exit, at \o <<base + 10 + j>>),
                         es, j + 1, exit, at, base)

AssembleSeq(st, es, exit, at, base) == AssembleSeqFrom(st, es, 1, exit, at, base)

AssembleIdent(st, e, at) ==
    CASE e.ref = "Local" -> Emit(st, Op("Local", at))
      [] e.ref = "Param" -> Emit(st, Op("Param", at))
      [] OTHER -> Fail(st, "UnexpectedToken(symbol)")

AssembleConstant(st, e, at) ==
    CASE e.cons = "True" -> Emit(st, Op("TrueConst", at))
      [] e.cons = "False" -> Emit(st, Op("FalseConst", at))
      [] e.cons = "I32" -> Emit(st, Op("I32Const", at))
      [] e.cons = "String" -> Emit(st, Op("StringConst", at))
      [] OTHER -> Emit(st, Op("NameConst", at))

AssembleReturn(st, e, at) ==
    LET s1 == Emit(st, Op("Return", at))
    IN IF Len(e.val) = 1
       THEN Assemble(s1, e.val[1], NoLabel, at \o <<1>>)
       ELSE Emit(s1, Op("Nop", at))

\* the Assign opcode emitted after the left-hand side
AssembleAssignInfix(st, e, at) ==
    LET s1 == Assemble(st, e.lhs, NoLabel, at \o <<1>>)
        s2 == Emit(s1, Op("Assign", at))
    IN Assemble(s2, e.rhs, NoLabel, at \o <<2>>)

AssembleAssign(st, e, at) ==
    LET s1 == Emit(st, Op("Assign", at))
        s2 == Assemble(s1, e.lhs, NoLabel, at \o <<1>>)
    IN Assemble(s2, e.rhs, NoLabel, at \o <<2>>)

SwitchWhile(st, cases, i, next_case_label, exit_label, at) ==
    IF ~Live(st) \/ i > Len(cases)
    THEN [st |-> st, next_case_label |-> next_case_label]
    ELSE LET body_label == st.labels
         IN SwitchFor(NewLabel(st), cases, i, next_case_label, body_label,
                      exit_label, at)

\* the for loop with `let body_label = self.new_label()` moved into it: a
\* body label per case
SwitchForOwnLabel(st, cases, i, next_case_label, body_label, exit_label, at) ==
    IF ~Live(st) \/ i > Len(cases)
    THEN [st |-> st, next_case_label |-> next_case_label]
    ELSE LET case == cases[i]
             own_label == st.labels
             s0 == NewLabel(st)
             s1 == EmitLabel(s0, next_case_label, at)
             next == s1.labels
             s2 == NewLabel(s1)
             s3 == Emit(s2, Instr("SwitchLabel", next, own_label, 0, at))
             s4 == Assemble(s3, case.matcher, NoLabel, at \o <<100 * i + 1>>)
         IN IF ~IsEmptyBody(case.body)
            THEN LET s5 == EmitLabel(s4, own_label, at)
                     s6 == AssembleSeq(s5, case.body, exit_label, at, 100 * i)
                 IN SwitchWhile(s6, cases, i + 1, next, exit_label, at)
            ELSE SwitchFor(s4, cases, i + 1, next, body_label, exit_label, at)

SwitchFor(st, cases, i, next_case_label, body_label, exit_label, at) ==
    IF ~Live(st) \/ i > Len(cases)
    THEN [st |-> st, next_case_label |-> next_case_label]
    ELSE LET case == cases[i]
             s1 == EmitLabel(st, next_case_label, at)
             next == s1.labels
             s2 == NewLabel(s1)
             s3 == Emit(s2, Instr("SwitchLabel", next, body_label, 0, at))
             s4 == Assemble(s3, case.matcher, NoLabel, at \o <<100 * i + 1>>)
         IN IF ~IsEmptyBody(case.body)
            THEN LET s5 == EmitLabel(s4, body_label, at)
                     s6 == AssembleSeq(s5, case.body, exit_label, at, 100 * i)
                 IN SwitchWhile(s6, cases, i + 1, next, exit_label, at)
            ELSE SwitchFor(s4, cases, i + 1, next, body_label, exit_label, at)

AssembleSwitch(st, e, at) ==
    IF TypeOf(e.expr) = "Err"
    THEN Fail(st, "TypeError")
    ELSE LET first_case_label == st.labels
             next_case_label == st.labels + 1
             exit_label == st.labels + 2
             s1 == NewLabel(NewLabel(NewLabel(st)))
             s2 == Emit(s1, Instr("Switch", first_case_label, NoLabel, 0, at))
             s3 == Assemble(s2, e.expr, NoLabel, at \o <<1>>)
             s4 == EmitLabel(s3, first_case_label, at)
             r == SwitchWhile(s4, e.cases, 1, next_case_label, exit_label, at)
             s5 == EmitLabel(r.st, r.next_case_label, at)
             s6 == IF e.hasDefault
                   THEN AssembleSeq(Emit(s5, Op("SwitchDefault", at)),
                                    e.default, exit_label, at, 0)
                   ELSE s5
         IN EmitLabel(s6, exit_label, at)

\* the branches assembled with None for the exit label
AssembleIfDropExit(st, e, exit, at) ==
    LET else_label == st.labels
        s1 == NewLabel(st)
        s2 == Emit(s1, Instr("JumpIfFalse", else_label, NoLabel, 0, at))
        s3 == Assemble(s2, e.cond, NoLabel, at \o <<1>>)
        s4 == AssembleSeq(s3, e.then, NoLabel, at, 0)
    IN IF e.hasElse
       THEN LET exit_label == s4.labels
                s5 == NewLabel(s4)
                s6 == Emit(s5, Instr("Jump", exit_label, NoLabel, 0, at))
                s7 == EmitLabel(s6, else_label, at)
                s8 == AssembleSeq(s7, e.else, NoLabel, at, 10)
            IN EmitLabel(s8, exit_label, at)
       ELSE EmitLabel(s4, else_label, at)

AssembleIf(st, e, exit, at) ==
    LET else_label == st.labels
        s1 == NewLabel(st)
        s2 == Emit(s1, Instr("JumpIfFalse", else_label, NoLabel, 0, at))
        s3 == Assemble(s2, e.cond, NoLabel, at \o <<1>>)
        s4 == AssembleSeq(s3, e.then, exit, at, 0)
    IN IF e.hasElse
       THEN LET exit_label == s4.labels
                s5 == NewLabel(s4)
                s6 == Emit(s5, Instr("Jump", exit_label, NoLabel, 0, at))
                s7 == EmitLabel(s6, else_label, at)
                s8 == AssembleSeq(s7, e.else, exit, at, 10)
            IN EmitLabel(s8, exit_label, at)
       ELSE EmitLabel(s4, else_label, at)

\* the false label emitted ahead of the Conditional opcode
AssembleConditionalLabelFirst(st, e, at) ==
    LET false_label == st.labels
        exit_label == st.labels + 1
        s1 == NewLabel(NewLabel(st))
        s2 == EmitLabel(s1, false_label, at)
        s3 == Emit(s2, Instr("Conditional", false_label, exit_label, 0, at))
        s4 == Assemble(s3, e.cond, NoLabel, at \o <<1>>)
        s5 == Assemble(s4, e.true, NoLabel, at \o <<2>>)
        s6 == Assemble(s5, e.false, NoLabel, at \o <<3>>)
    IN EmitLabel(s6, exit_label, at)

AssembleConditional(st, e, at) ==
    LET false_label == st.labels
        exit_label == st.labels + 1
        s1 == NewLabel(NewLabel(st))
        s2 == Emit(s1, Instr("Conditional", false_label, exit_label, 0, at))
        s3 == Assemble(s2, e.cond, NoLabel, at \o <<1>>)
        s4 == Assemble(s3, e.true, NoLabel, at \o <<2>>)
        s5 == EmitLabel(s4, false_label, at)
        s6 == Assemble(s5, e.false, NoLabel, at \o <<3>>)
    IN EmitLabel(s6, exit_label, at)

\* the loop label emitted after the condition instead of before the guard
AssembleWhileLoopAfterCond(st, e, at) ==
    LET exit_label == st.labels
        loop_label == st.labels + 1
        s1 == NewLabel(NewLabel(st))
        s2 == Emit(s1, Instr("JumpIfFalse", exit_label, NoLabel, 0, at))
        s3 == Assemble(s2, e.cond, NoLabel, at \o <<1>>)
        s4 == EmitLabel(s3, loop_label, at)
        s5 == AssembleSeq(s4, e.body, exit_label, at, 0)
        s6 == Emit(s5, Instr("Jump", loop_label, NoLabel, 0, at))
    IN EmitLabel(s6, exit_label, at)

AssembleWhile(st, e, at) ==
    LET exit_label == st.labels
        loop_label == st.labels + 1
        s1 == NewLabel(NewLabel(st))
        s2 == EmitLabel(s1, loop_label, at)
        s3 == Emit(s2, Instr("JumpIfFalse", exit_label, NoLabel, 0, at))
        s4 == Assemble(s3, e.cond, NoLabel, at \o <<1>>)
        s5 == AssembleSeq(s4, e.body, exit_label, at, 0)
        s6 == Emit(s5, Instr("Jump", loop_label, NoLabel, 0, at))
    IN EmitLabel(s6, exit_label, at)

(***************************************************************************)
(* Call encoder.  A function is [final, static, native, params], params    *)
(* the sequence of the parameters' short-circuit flags (read from the      *)
(* pool at lines 389-395).                                                 *)
(***************************************************************************)
\* TypedExprExt::is_prvalue (typechecker): identifiers, members, array
\* elements and this are l-values.
IsPrvalue(e) == e.k \notin {"Ident", "Member", "ArrayElem", "This", "Super"}

IsAsRefCall(e) == e.k = "Call" /\ e.callable = "Intrinsic" /\ e.op = "AsRef"

\* Option<bool> as "None" / "True" / "False"
IsRvalueRef(e) ==
    CASE TypeOf(e) = "Err" -> "None"
      [] TypeOf(e) = "ScriptRef" ->
            IF IsAsRefCall(e)
            THEN IF Len(e.args) >= 1
                 THEN (IF IsPrvalue(e.args[1]) THEN "True" ELSE "False")
                 ELSE "True"
            ELSE "True"
      [] OTHER -> "None"

U16Bits == 16

RECURSIVE Pow2(_)
Pow2(n) == IF n = 0 THEN 1 ELSE 2 * Pow2(n - 1)

BitSet(flags, k) == (flags \div Pow2(k)) % 2 = 1

\* flags | (1 << k) in u16, k < 16
OrBit(flags, k) == IF BitSet(flags, k) THEN flags ELSE flags + Pow2(k)

\* The loop of lines 398-404 from argument index n (0-based) on.  1 << n
\* on a u16 overflows for n >= 16: with overflow checks the build panics,
\* without them the shift amount wraps to n mod 16.
RECURSIVE InvokeFlagsFrom(_, _, _, _)
InvokeFlagsFrom(args, n, invoke_flags, shl) ==
    IF n >= Len(args)
    THEN [flags |-> invoke_flags, panic |-> FALSE]
    ELSE IF IsRvalueRef(args[n + 1]) = "True"
         THEN IF n >= U16Bits /\ shl = "panic"
              THEN [flags |-> invoke_flags, panic |-> TRUE]
              ELSE InvokeFlagsFrom(args, n + 1, OrBit(invoke_flags, n % U16Bits), shl)
         ELSE InvokeFlagsFrom(args, n + 1, invoke_flags, shl)

InvokeFlags(args, shl) == InvokeFlagsFrom(args, 0, 0, shl)

\* the skip label's Target emitted before the argument instead of after it
AssembleArgsTargetFirst(st, args, param_flags, j, at) ==
    IF ~Live(st) \/ j > Len(args) \/ j > Len(param_flags)
    THEN st
    ELSE LET argAt == at \o <<1000 + j>>
             s1 == IF param_flags[j]
                   THEN LET skip_label == st.labels
                            t1 == NewLabel(st)
                            t2 == Emit(t1, Instr("Skip", skip_label, NoLabel, 0, at))
                            t3 == EmitLabel(t2, skip_label, at)
                        IN Assemble(t3, args[j], NoLabel, argAt)
                   ELSE Assemble(st, args[j], NoLabel, argAt)
         IN AssembleArgs(s1, args, param_flags, j + 1, at)

\* for (arg, flags) in args.into_iter().zip(&param_flags)
AssembleArgs(st, args, param_flags, j, at) ==
    IF ~Live(st) \/ j > Len(args) \/ j > Len(param_flags)
    THEN st
    ELSE LET argAt == at \o <<1000 + j>>
             s1 == IF param_flags[j]
                   THEN LET skip_label == st.labels
                            t1 == NewLabel(st)
                            t2 == Emit(t1, Instr("Skip", skip_label, NoLabel, 0, at))
                            t3 == Assemble(t2, args[j], NoLabel, argAt)
                        IN EmitLabel(t3, skip_label, at)
                   ELSE Assemble(st, args[j], NoLabel, argAt)
         IN AssembleArgs(s1, args, param_flags, j + 1, at)

RECURSIVE EmitNops(_, _, _)
EmitNops(st, n, at) ==
    IF n <= 0 THEN st ELSE EmitNops(Emit(st, Op("Nop", at)), n - 1, at)

\* the dispatch condition without the native flag
IsVirtualIgnoringNative(fun, force_static) ==
    ~force_static /\ ~fun.final /\ ~fun.static

IsVirtual(fun, force_static) ==
    ~force_static /\ ~fun.final /\ ~fun.static /\ ~fun.native

\* assemble_call without the check of lines 427-432
AssembleCallUnchecked(st, fun, args, force_static, at) ==
    LET param_flags == fun.params
        exit_label == st.labels
        s1 == NewLabel(st)
        fl == InvokeFlags(args, st.shl)
        s2 == IF fl.panic THEN Fail(s1, "panic(shift overflow)") ELSE s1
        s3 == IF IsVirtual(fun, force_static)
              THEN Emit(s2, Instr("InvokeVirtual", exit_label, NoLabel, fl.flags, at))
              ELSE Emit(s2, Instr("InvokeStatic", exit_label, NoLabel, fl.flags, at))
        s4 == AssembleArgs(s3, args, param_flags, 1, at)
        s6 == EmitNops(s4, Len(param_flags) - Len(args), at)
        s7 == Emit(s6, Op("ParamEnd", at))
    IN EmitLabel(s7, exit_label, at)

AssembleCall(st, fun, args, force_static, at) ==
    LET param_flags == fun.params
        exit_label == st.labels
        s1 == NewLabel(st)
        fl == InvokeFlags(args, st.shl)
        s2 == IF fl.panic THEN Fail(s1, "panic(shift overflow)") ELSE s1
        s3 == IF IsVirtual(fun, force_static)
              THEN Emit(s2, Instr("InvokeVirtual", exit_label, NoLabel, fl.flags, at))
              ELSE Emit(s2, Instr("InvokeStatic", exit_label, NoLabel, fl.flags, at))
        s4 == AssembleArgs(s3, args, param_flags, 1, at)
        s5 == IF Len(param_flags) < Len(args)
              THEN Fail(s4, "UnsupportedFeature(cannot emit function call)")
              ELSE s4
        s6 == EmitNops(s5, Len(param_flags) - Len(args), at)
        s7 == Emit(s6, Op("ParamEnd", at))
    IN EmitLabel(s7, exit_label, at)

IsTypeSymbol(e) == e.k = "Ident" /\ e.ref \in {"ClassSym", "StructSym"}

\* a super receiver treated like any other receiver
AssembleMethodCallSuperVirtual(st, e, at) ==
    IF IsTypeSymbol(e.expr)
    THEN AssembleCall(st, e.fun, e.args, TRUE, at)
    ELSE LET exit_label == st.labels
             s1 == NewLabel(st)
             s2 == Emit(s1, Instr("Context", exit_label, NoLabel, 0, at))
             s3 == Assemble(s2, e.expr, NoLabel, at \o <<1>>)
             s4 == AssembleCall(s3, e.fun, e.args, FALSE, at)
         IN EmitLabel(s4, exit_label, at)

AssembleMethodCall(st, e, at) ==
    IF IsTypeSymbol(e.expr)
    THEN AssembleCall(st, e.fun, e.args, TRUE, at)
    ELSE LET force_static_call == e.expr.k = "Super"
             exit_label == st.labels
             s1 == NewLabel(st)
             s2 == Emit(s1, Instr("Context", exit_label, NoLabel, 0, at))
             s3 == Assemble(s2, e.expr, NoLabel, at \o <<1>>)
             s4 == AssembleCall(s3, e.fun, e.args, force_static_call, at)
         IN EmitLabel(s4, exit_label, at)

\* for arg in args { self.assemble(arg, scope, pool, None)?; }
AssembleAll(st, args, j, at) ==
    IF ~Live(st) \/ j > Len(args)
    THEN st
    ELSE AssembleAll(Assemble(st, args[j], NoLabel, at \o <<1000 + j>>),
                     args, j + 1, at)

(***************************************************************************)
(* Intrinsics.  The opcode is chosen from the intrinsic and the type of    *)
(* the first argument; the intrinsics of one row of the source that differ *)
(* only in the opcode's name are told apart by that name.                  *)
(***************************************************************************)
StaticOrDynamic == {"ArraySize", "ArrayFindFirst", "ArrayFindLast",
                    "ArrayContains", "ArrayCount"}

ByReturnType == {"IntEnum", "FromVariant", "Deref"}

NoTypeOperand == {"VariantIsRef", "VariantIsArray", "VariantTypeName",
                  "RefToWeakRef", "WeakRefToRef"}

\* [op, err]: the opcode assemble_intrinsic emits for the intrinsic, or the
\* error / panic it ends with
IntrinsicOpcode(intrinsic, args) ==
    LET ok(op) == [op |-> op, err |-> "ok"]
        bad(cause) == [op |-> "", err |-> cause]
        arg0 == IF Len(args) >= 1 THEN TypeOf(args[1]) ELSE "Missing"
    IN CASE intrinsic \in ByReturnType ->
              ok(CASE intrinsic = "IntEnum" -> "I32ToEnum"
                   [] intrinsic = "FromVariant" -> "FromVariant"
                   [] OTHER -> "Deref")
         [] intrinsic \in NoTypeOperand -> ok(intrinsic)
         [] arg0 = "Missing" -> bad("panic(index out of bounds)")
         [] arg0 = "Err" -> bad("TypeError")
         [] intrinsic \in StaticOrDynamic ->
              ok(IF arg0 = "StaticArray"
                 THEN "Static" \o intrinsic ELSE intrinsic)
         [] intrinsic = "ToString" ->
              ok(IF arg0 = "Variant" THEN "VariantToString" ELSE "ToString")
         [] intrinsic = "EnumInt" -> ok("EnumToI32")
         [] intrinsic = "IsDefined" ->
              CASE arg0 \in {"Ref", "Null"} -> ok("RefToBool")
                [] arg0 = "WeakRef" -> ok("WeakRefToBool")
                [] arg0 = "Variant" -> ok("VariantIsDefined")
                [] OTHER -> bad("panic(Invalid IsDefined parameter)")
         [] intrinsic = "NameOf" ->
              IF arg0 \in {"Enum", "Class", "Struct"}
              THEN ok("NameConst")
              ELSE bad("panic(Invalid NameOf parameter)")
         [] OTHER -> ok(intrinsic)

AssembleIntrinsic(st, intrinsic, args, at) ==
    LET r == IntrinsicOpcode(intrinsic, args)
    IN IF r.err # "ok"
       THEN Fail(st, r.err)
       ELSE LET s1 == Emit(st, Op(r.op, at))
            IN IF intrinsic = "NameOf" THEN s1 ELSE AssembleAll(s1, args, 1, at)

AssembleCallExpr(st, e, at) ==
    IF e.callable = "Function"
    THEN AssembleCall(st, e.fun, e.args, FALSE, at)
    ELSE AssembleIntrinsic(st, e.op, e.args, at)

AssembleMember(st, e, at) ==
    CASE e.member = "ClassField" ->
            LET exit_label == st.labels
                s1 == NewLabel(st)
                s2 == Emit(s1, Instr("Context", exit_label, NoLabel, 0, at))
                s3 == Assemble(s2, e.expr, NoLabel, at \o <<1>>)
                s4 == Emit(s3, Op("ObjectField", at))
            IN EmitLabel(s4, exit_label, at)
      [] e.member = "StructField" ->
            Assemble(Emit(st, Op("StructField", at)), e.expr, NoLabel, at \o <<1>>)
      [] OTHER -> Emit(st, Op("EnumConst", at))

AssembleCast(st, e, at) ==
    IF e.type = "Class"
    THEN Assemble(Emit(st, Op("DynamicCast", at)), e.expr, NoLabel, at \o <<1>>)
    ELSE Fail(st, "UnsupportedOperation(casting)")

AssembleArrayElem(st, e, at) ==
    LET s1 == CASE TypeOf(e.expr) = "Err" -> Fail(st, "TypeError")
                [] TypeOf(e.expr) = "Array" -> Emit(st, Op("ArrayElement", at))
                [] TypeOf(e.expr) = "StaticArray" ->
                      Emit(st, Op("StaticArrayElement", at))
                [] OTHER -> Fail(st, "UnsupportedOperation(indexing)")
        s2 == Assemble(s1, e.expr, NoLabel, at \o <<1>>)
    IN Assemble(s2, e.idx, NoLabel, at \o <<2>>)

\* the arguments of a class allocation assembled like those of a struct
AssembleNewWithArgs(st, e, at) ==
    CASE e.type = "Class" -> AssembleAll(Emit(st, Op("New", at)), e.args, 1, at)
      [] e.type = "Struct" ->
            AssembleAll(Emit(st, Instr("Construct", NoLabel, NoLabel, Len(e.args), at)),
                        e.args, 1, at)
      [] OTHER -> Fail(st, "UnsupportedOperation(constructing)")

AssembleNew(st, e, at) ==
    CASE e.type = "Class" -> Emit(st, Op("New", at))
      [] e.type = "Struct" ->
            AssembleAll(Emit(st, Instr("Construct", NoLabel, NoLabel, Len(e.args), at)),
                        e.args, 1, at)
      [] OTHER -> Fail(st, "UnsupportedOperation(constructing)")

(***************************************************************************)
(* Default initialization.  A TypeId is [t, ...]: [t |-> "Prim", name],    *)
(* [t |-> "Enum", members], [t |-> "Array", elem],                         *)
(* [t |-> "StaticArray", elem, size], or only [t].                         *)
(***************************************************************************)
PrimInitializer(name) ==
    CASE name = "Bool" -> "FalseConst"
      [] name = "Int8" -> "I8Const"
      [] name = "Int16" -> "I16Const"
      [] name = "Int32" -> "I32Zero"
      [] name = "Int64" -> "I64Const"
      [] name = "Uint8" -> "U8Const"
      [] name = "Uint16" -> "U16Const"
      [] name = "Uint32" -> "U32Const"
      [] name = "Uint64" -> "U64Const"
      [] name = "Float" -> "F32Const"
      [] name = "Double" -> "F64Const"
      [] name = "String" -> "StringConst"
      [] name = "CName" -> "NameConst"
      [] name = "TweakDBID" -> "TweakDbIdConst"
      [] name = "ResRef" -> "ResourceConst"
      [] OTHER -> "None"

\* Result<Option<Instr>, Cause> as [op, err]; op = "None" for Ok(None)
GetInitializer(typ) ==
    LET ok(op) == [op |-> op, err |-> "ok"]
    IN CASE typ.t = "Prim" -> ok(PrimInitializer(typ.name))
         [] typ.t = "Struct" -> ok("Construct")
         [] typ.t = "Enum" -> ok(IF typ.members > 0 THEN "EnumConst" ELSE "None")
         [] typ.t = "Ref" -> ok("Null")
         [] typ.t = "WeakRef" -> ok("WeakRefNull")
         [] typ.t \in {"Array", "StaticArray"} ->
              [op |-> "None",
               err |-> "UnsupportedFeature(initializing a static array with another array)"]
         [] OTHER -> ok("None")

RECURSIVE InitElementsFromOne(_, _, _, _, _)
\* the loop of lines 359-365 with the index counted from 1
InitElementsFromOne(st, i, size, op, at) ==
    IF i >= size
    THEN st
    ELSE LET s1 == Emit(st, Op("Assign", at))
             s2 == Emit(s1, Op("StaticArrayElement", at))
             s3 == Emit(s2, Op("Local", at))
             s4 == Emit(s3, Instr("U32Const", NoLabel, NoLabel, i + 1, at))
             s5 == Emit(s4, Op(op, at))
         IN InitElementsFromOne(s5, i + 1, size, op, at)

RECURSIVE InitElements(_, _, _, _, _)
InitElements(st, i, size, op, at) ==
    IF i >= size
    THEN st
    ELSE LET s1 == Emit(st, Op("Assign", at))
             s2 == Emit(s1, Op("StaticArrayElement", at))
             s3 == Emit(s2, Op("Local", at))
             s4 == Emit(s3, Instr("U32Const", NoLabel, NoLabel, i, at))
             s5 == Emit(s4, Op(op, at))
         IN InitElements(s5, i + 1, size, op, at)

EmitInitializer(st, typ, at) ==
    CASE typ.t = "Array" ->
            Emit(Emit(st, Op("ArrayClear", at)), Op("Local", at))
      [] typ.t = "StaticArray" ->
            LET g == GetInitializer(typ.elem)
            IN IF g.err # "ok" THEN Fail(st, g.err)
               ELSE IF g.op # "None"
                    THEN InitElements(st, 0, typ.size, g.op, at)
                    ELSE st
      [] OTHER ->
            LET g == GetInitializer(typ)
            IN IF g.err # "ok" THEN Fail(st, g.err)
               ELSE IF g.op # "None"
                    THEN Emit(Emit(Emit(st, Op("Assign", at)), Op("Local", at)),
                              Op(g.op, at))
                    ELSE st

AssembleDeclare(st, e, at) ==
    IF Len(e.init) = 1
    THEN LET s1 == Emit(st, Op("Assign", at))
             s2 == Emit(s1, Op("Local", at))
         IN Assemble(s2, e.init[1], NoLabel, at \o <<1>>)
    ELSE IF Len(e.typ) = 0
         THEN Fail(st, "panic(Local without type)")
         ELSE EmitInitializer(st, e.typ[1], at)

AssembleBreak(st, exit, at) ==
    IF exit # NoLabel
    THEN Emit(st, Instr("Jump", exit, NoLabel, 0, at))
    ELSE Fail(st, "UnsupportedFeature(Break)")

Unsupported == {"ArrayLit", "InterpolatedString", "ForIn", "BinOp", "UnOp", "Goto"}

\* the name the error carries for the shape
FeatureName(k) == IF k = "ForIn" THEN "For-in" ELSE k

AssembleUnsupported(st, e) == Fail(st, "UnsupportedFeature(" \o FeatureName(e.k) \o ")")

Assemble(st, e, exit, at) ==
    IF ~Live(st) THEN st
    ELSE CASE e.k = "Ident" -> AssembleIdent(st, e, at)
           [] e.k = "Constant" -> AssembleConstant(st, e, at)
           [] e.k = "Declare" -> AssembleDeclare(st, e, at)
           [] e.k = "Assign" -> AssembleAssign(st, e, at)
           [] e.k = "Return" -> AssembleReturn(st, e, at)
           [] e.k = "Seq" -> AssembleSeq(st, e.exprs, exit, at, 0)
           [] e.k = "Switch" -> AssembleSwitch(st, e, at)
           [] e.k = "If" -> AssembleIf(st, e, exit, at)
           [] e.k = "Conditional" -> AssembleConditional(st, e, at)
           [] e.k = "While" -> AssembleWhile(st, e, at)
           [] e.k = "Member" -> AssembleMember(st, e, at)
           [] e.k = "Call" -> AssembleCallExpr(st, e, at)
           [] e.k = "MethodCall" -> AssembleMethodCall(st, e, at)
           [] e.k = "Cast" -> AssembleCast(st, e, at)
           [] e.k = "ArrayElem" -> AssembleArrayElem(st, e, at)
           [] e.k = "New" -> AssembleNew(st, e, at)
           [] e.k = "Null" -> Emit(st, Op("Null", at))
           [] e.k \in {"This", "Super"} -> Emit(st, Op("This", at))
           [] e.k = "Break" -> AssembleBreak(st, exit, at)
           [] e.k \in Unsupported -> AssembleUnsupported(st, e)

(***************************************************************************)
(* Label resolver.  Code::iter pairs each instruction with its byte        *)
(* location; the size function is the bytecode crate's: a Target takes no  *)
(* room, another instruction its opcode byte and two bytes per branch      *)
(* operand.                                                                *)
(***************************************************************************)
IsTarget(i) == i.op = "Target"

NumLabels(i) ==
    IF IsTarget(i) THEN 0
    ELSE (IF i.l1 # NoLabel THEN 1 ELSE 0) + (IF i.l2 # NoLabel THEN 1 ELSE 0)

InstrSize(i) == IF IsTarget(i) THEN 0 ELSE 1 + 2 * NumLabels(i)

RECURSIVE LocationOf(_, _)
LocationOf(instrs, n) ==
    IF n <= 1 THEN 0 ELSE LocationOf(instrs, n - 1) + InstrSize(instrs[n - 1])

Max(S) == CHOOSE m \in S : \A n \in S : n <= m
Min(S) == CHOOSE m \in S : \A n \in S : m <= n

\* locations after the first pass: Location::new(0) unless a Target(label)
\* set it (the last one wins)
Locations(instrs, nlabels) ==
    [l \in 0..(nlabels - 1) |->
        LET T == {n \in 1..Len(instrs) : IsTarget(instrs[n]) /\ instrs[n].l1 = l}
        IN IF T = {} THEN 0 ELSE LocationOf(instrs, Max(T))]

\* Instr::resolve_labels: the opcode and immediates stay, each label
\* becomes target_location - instruction_location
ResolveLabels(i, loc, locations) ==
    [op |-> i.op, n |-> NumLabels(i),
     o1 |-> IF i.l1 # NoLabel THEN locations[i.l1] - loc ELSE 0,
     o2 |-> IF i.l2 # NoLabel THEN locations[i.l2] - loc ELSE 0,
     x |-> i.x, at |-> i.at]

RECURSIVE ResolveFrom(_, _, _)
ResolveFrom(instrs, n, locations) ==
    IF n > Len(instrs) THEN <<>>
    ELSE IF IsTarget(instrs[n])
         THEN ResolveFrom(instrs, n + 1, locations)
         ELSE <<ResolveLabels(instrs[n], LocationOf(instrs, n), locations)>>
              \o ResolveFrom(instrs, n + 1, locations)

\* into_code without the filter of line 626
IntoCodeKeepTargets(instrs, nlabels) ==
    [n \in 1..Len(instrs) |->
        ResolveLabels(instrs[n], LocationOf(instrs, n), Locations(instrs, nlabels))]

IntoCode(instrs, nlabels) == ResolveFrom(instrs, 1, Locations(instrs, nlabels))

(***************************************************************************)
(* Diagnostics.  A Diagnostic is [kind, span] (a CompileError also holds   *)
(* its cause); an Error is [kind, span] likewise.                          *)
(***************************************************************************)
NoError == [kind |-> "NoError"]
NoDiagnostic == [kind |-> "NoDiagnostic"]

\* enum Diagnostic
DiagnosticKinds ==
    {"ReplaceMethodConflict", "FieldConflict", "Deprecation", "UnusedLocal",
     "MissingReturn", "StatementFallthrough", "InvalidUseOfTemporary",
     "AddMethodConflict", "NonClassRefDeprecation",
     "ClassWithNoIndirectionDeprecation", "SyntaxError", "CompileError", "CteError"}

\* is_fatal with MissingReturn left out of the matches! list
IsFatalMissingReturn(d) ==
    ~(d.kind \in {"ReplaceMethodConflict", "FieldConflict", "Deprecation",
                  "UnusedLocal", "AddMethodConflict",
                  "NonClassRefDeprecation", "ClassWithNoIndirectionDeprecation"})

IsFatal(d) ==
    ~(d.kind \in {"ReplaceMethodConflict", "FieldConflict", "Deprecation",
                  "UnusedLocal", "MissingReturn", "AddMethodConflict",
                  "NonClassRefDeprecation", "ClassWithNoIndirectionDeprecation"})

\* Result<Diagnostic, Error> as [ok, val]
FromErrorResult(e) ==
    CASE e.kind = "SyntaxError" -> [ok |-> TRUE, val |-> e]
      [] e.kind = "CompileError" -> [ok |-> TRUE, val |-> e]
      [] e.kind = "CteError" -> [ok |-> TRUE, val |-> e]
      [] OTHER -> [ok |-> FALSE, val |-> e]

\* if self.is_fatal() { log::error!(..) } else { log::warn!(..) }
LogLevel(d) == IF IsFatal(d) THEN "error" ELSE "warn"

(***************************************************************************)
(* Typed bodies.                                                           *)
(***************************************************************************)
MaxDepth == 2
MaxCases == 3
MaxArgs == 2
MaxParams == 3
MaxWide == 17
MaxSize == 2

Local(ty) == [k |-> "Ident", ref |-> "Local", ty |-> ty]
Param(ty) == [k |-> "Ident", ref |-> "Param", ty |-> ty]
Symbol(ref) == [k |-> "Ident", ref |-> ref, ty |-> "Void"]
Const(cons) == [k |-> "Constant", cons |-> cons, ty |-> "Prim"]
This == [k |-> "This", ty |-> "Ref"]
Super == [k |-> "Super", ty |-> "Ref"]
Break == [k |-> "Break"]
ReturnNone == [k |-> "Return", val |-> <<>>]
Block(es) == [k |-> "Seq", exprs |-> es]
While(c, b) == [k |-> "While", cond |-> c, body |-> b]
If(c, t) == [k |-> "If", cond |-> c, then |-> t, hasElse |-> FALSE, else |-> <<>>]
IfElse(c, t, f) == [k |-> "If", cond |-> c, then |-> t, hasElse |-> TRUE, else |-> f]
Case(m, b) == [matcher |-> m, body |-> b]
Switch(e, cs) ==
    [k |-> "Switch", expr |-> e, cases |-> cs, hasDefault |-> FALSE, default |-> <<>>]
SwitchDef(e, cs, d) ==
    [k |-> "Switch", expr |-> e, cases |-> cs, hasDefault |-> TRUE, default |-> d]
Fun(final, static, native, params) ==
    [final |-> final, static |-> static, native |-> native, params |-> params]
Call(fun, args, ty) ==
    [k |-> "Call", callable |-> "Function", fun |-> fun, args |-> args, ty |-> ty]
Intrinsic(op, args, ty) ==
    [k |-> "Call", callable |-> "Intrinsic", op |-> op, args |-> args, ty |-> ty]
MethodCall(recv, fun, args) ==
    [k |-> "MethodCall", expr |-> recv, fun |-> fun, args |-> args, ty |-> "Prim"]
Member(e, m, ty) == [k |-> "Member", expr |-> e, member |-> m, ty |-> ty]

RECURSIVE SeqsOf(_, _)
\* the sequences over S of length at most n
SeqsOf(S, n) ==
    IF n = 0 THEN {<<>>}
    ELSE LET R == SeqsOf(S, n - 1)
         IN R \cup {Append(s, x) : s \in {r \in R : Len(r) = n - 1}, x \in S}

Cond == Local("Prim")

\* statements nested to depth d, one nested body per construct
RECURSIVE Nest(_)
Nest(d) ==
    IF d = 0 THEN {Break, ReturnNone}
    ELSE LET Sub == Nest(d - 1)
             B == {<<>>} \cup {<<s>> : s \in Sub} \cup {<<s, Break>> : s \in Sub}
         IN {Break, ReturnNone}
            \cup {While(Cond, b) : b \in B}
            \cup {If(Cond, b) : b \in B}
            \cup {IfElse(Cond, b, <<Break>>) : b \in B}
            \cup {IfElse(Cond, <<ReturnNone>>, b) : b \in B}
            \cup {Switch(Cond, <<Case(Const("I32"), b)>>) : b \in B}
            \cup {SwitchDef(Cond, <<>>, b) : b \in B}
            \cup {Block(b) : b \in B}

NestBodies == {<<>>} \cup {<<s>> : s \in Nest(MaxDepth)}

\* one switch of up to MaxCases cases with empty and non-empty bodies
CaseBodies ==
    {<<>>, <<Block(<<>>)>>, <<Break>>, <<While(Cond, <<Break>>)>>,
     <<If(Cond, <<Break>>)>>}

SwitchStmts ==
    LET Cs == SeqsOf({Case(Const("I32"), b) : b \in CaseBodies}, MaxCases)
    IN {Switch(Cond, cs) : cs \in Cs}
       \cup {SwitchDef(Cond, cs, d) : cs \in Cs, d \in {<<>>, <<Break>>}}

SwitchBodies ==
    {<<s>> : s \in SwitchStmts} \cup {<<While(Cond, <<s>>)>> : s \in SwitchStmts}

\* calls: the argument shapes is_rvalue_ref tells apart, and a nested call
AsRef(x) == Intrinsic("AsRef", <<x>>, "ScriptRef")

ArgPool ==
    {Local("Prim"), Local("ScriptRef"), Local("Err"),
     AsRef(Local("Prim")), AsRef(Const("I32")),
     Call(Fun(FALSE, TRUE, FALSE, <<>>), <<>>, "ScriptRef")}

ArgBodies ==
    {<<Call(Fun(FALSE, FALSE, FALSE, ps), as, "Prim")>> :
        as \in SeqsOf(ArgPool, MaxArgs), ps \in SeqsOf(BOOLEAN, MaxParams)}

Receivers ==
    {Symbol("ClassSym"), Symbol("StructSym"), Symbol("EnumSym"),
     Local("Ref"), This, Super, Member(This, "ClassField", "Ref")}

DispatchBodies ==
    LET Funs == {Fun(f, s, n, ps) : f \in BOOLEAN, s \in BOOLEAN, n \in BOOLEAN,
                                    ps \in {<<>>, <<TRUE>>}}
    IN {<<Call(fn, SubSeq(<<Local("Prim")>>, 1, Len(fn.params)), "Prim")>> :
           fn \in Funs}
       \cup {<<MethodCall(r, fn, SubSeq(<<Local("Prim")>>, 1, Len(fn.params)))>> :
               r \in Receivers, fn \in Funs}

\* calls of 15 to MaxWide arguments, at most two of them rvalue references
WideBodies ==
    LET Lens == (U16Bits - 1)..MaxWide
        Rs(n) == {R \in SUBSET (1..n) : Cardinality(R) <= 2}
        Args(n, R) == [j \in 1..n |->
                          IF j \in R THEN Local("ScriptRef") ELSE Local("Prim")]
    IN UNION {{<<Call(Fun(FALSE, TRUE, FALSE, [j \in 1..n |-> FALSE]),
                      Args(n, R), "Prim")>> : R \in Rs(n)} : n \in Lens}

\* declarations without initializer, of every type and of static arrays of
\* every element type, alone and followed by a statement
ElemTypes ==
    {[t |-> "Prim", name |-> n] : n \in {"Bool", "Int32", "Uint8", "String", "Variant"}}
    \cup {[t |-> "Enum", members |-> m] : m \in {0, 2}}
    \cup {[t |-> x] : x \in {"Struct", "Ref", "WeakRef", "Class", "ScriptRef"}}
    \cup {[t |-> "Array", elem |-> [t |-> "Ref"]],
          [t |-> "StaticArray", elem |-> [t |-> "Ref"], size |-> 1]}

DeclTypes ==
    ElemTypes
    \cup {[t |-> "StaticArray", elem |-> e, size |-> n] : e \in ElemTypes, n \in 0..MaxSize}

DeclareBodies ==
    LET D(typ) == [k |-> "Declare", init |-> <<>>, typ |-> <<typ>>]
    IN {<<D(typ)>> : typ \in DeclTypes} \cup {<<D(typ), ReturnNone>> : typ \in DeclTypes}

\* a shape that is not emittable, at the positions of a body: a statement,
\* nested in a body, an operand, an argument that is emitted, an argument
\* that is not
Shape(u, ty) == [k |-> u, ty |-> ty]

New(type, args) == [k |-> "New", type |-> type, args |-> args, ty |-> type]

ShapeContexts(u) ==
    LET x == Shape(u, "Prim")
        f1 == Fun(FALSE, TRUE, FALSE, <<FALSE>>)
    IN {<<x, ReturnNone>>, <<ReturnNone, x>>,
        <<While(Cond, <<x>>)>>, <<If(Cond, <<x>>)>>,
        <<IfElse(Cond, <<>>, <<x>>)>>,
        <<Switch(Cond, <<Case(Const("I32"), <<x>>)>>)>>,
        <<Switch(Cond, <<Case(x, <<Break>>)>>)>>,
        <<SwitchDef(Cond, <<>>, <<x>>)>>,
        <<While(x, <<>>)>>,
        <<[k |-> "Return", val |-> <<x>>]>>,
        <<[k |-> "Assign", lhs |-> Local("Prim"), rhs |-> x]>>,
        <<[k |-> "Declare", init |-> <<x>>, typ |-> <<>>]>>,
        <<New("Struct", <<Local("Prim"), x>>)>>,
        <<New("Class", <<x>>)>>,
        <<New("Class", <<Local("Prim"), x>>), ReturnNone>>,
        <<New("Struct", <<New("Class", <<x>>)>>)>>,
        <<Call(f1, <<x>>, "Prim")>>,
        <<Call(f1, <<Local("Prim"), x>>, "Prim")>>,
        <<MethodCall(This, f1, <<x>>)>>,
        <<Intrinsic("Equals", <<Local("Prim"), x>>, "Prim")>>,
        <<Intrinsic("ToString", <<x>>, "Prim")>>,
        <<Intrinsic("NameOf", <<Local("Class")>>, "Prim"), x>>}
       \cup {<<Intrinsic("NameOf", <<Shape(u, ty)>>, "Prim")>> :
                ty \in {"Class", "Enum", "Err", "Prim"}}
       \cup {<<Intrinsic("NameOf",
                         <<[k |-> "Cast", type |-> "Class", expr |-> x, ty |-> "Class"]>>,
                         "Prim")>>}

ShapeBodies == UNION {ShapeContexts(u) : u \in Unsupported}

\* the remaining arms of assemble
MiscBodies ==
    {<<s>> : s \in
        {[k |-> "Assign", lhs |-> Local("Prim"), rhs |-> Const("True")],
         [k |-> "Return", val |-> <<Local("Prim")>>],
         [k |-> "Return", val |-> <<Symbol("EnumSym")>>],
         [k |-> "Cast", type |-> "Class", expr |-> Local("Ref"), ty |-> "Ref"],
         [k |-> "Cast", type |-> "Prim", expr |-> Local("Prim"), ty |-> "Prim"],
         [k |-> "New", type |-> "Class", args |-> <<>>, ty |-> "Ref"],
         [k |-> "New", type |-> "Struct", args |-> <<Local("Prim"), Const("I32")>>,
          ty |-> "Struct"],
         [k |-> "New", type |-> "Prim", args |-> <<>>, ty |-> "Prim"],
         [k |-> "ArrayElem", expr |-> Local("Array"), idx |-> Const("I32"),
          ty |-> "Prim"],
         [k |-> "ArrayElem", expr |-> Local("StaticArray"), idx |-> Const("I32"),
          ty |-> "Prim"],
         [k |-> "ArrayElem", expr |-> Local("Prim"), idx |-> Const("I32"),
          ty |-> "Prim"],
         Member(Local("Struct"), "StructField", "Prim"),
         Member(Symbol("EnumSym"), "EnumMember", "Enum"),
         Member(Local("Ref"), "ClassField", "Prim"),
         [k |-> "Conditional", cond |-> Cond, true |-> Const("True"),
          false |-> Const("False"), ty |-> "Prim"],
         [k |-> "Declare", init |-> <<Const("I32")>>, typ |-> <<>>],
         [k |-> "Declare", init |-> <<>>, typ |-> <<[t |-> "Prim", name |-> "Bool"]>>],
         [k |-> "Declare", init |-> <<>>, typ |-> <<>>],
         Intrinsic("ArraySize", <<Local("StaticArray")>>, "Prim"),
         Intrinsic("Equals", <<Local("Prim"), Const("I32")>>, "Prim"),
         Intrinsic("IsDefined", <<Local("Ref")>>, "Prim"),
         Intrinsic("NameOf", <<Symbol("ClassSym")>>, "Prim"),
         Const("String"), [k |-> "Null", ty |-> "Null"]}
        \cup {[k |-> u] : u \in Unsupported}}

Bodies ==
    NestBodies \cup SwitchBodies \cup ArgBodies \cup DispatchBodies
    \cup WideBodies \cup MiscBodies \cup DeclareBodies \cup ShapeBodies

Init ==
    /\ body \in Bodies
    /\ pc = "start"
    /\ instructions = <<>>
    /\ labels = 0
    /\ error = "ok"
    /\ code = <<>>
    /\ input = NoError
    /\ diagnostic = NoDiagnostic
    /\ level = "none"

IsPanic(cause) == cause \in {"panic(shift overflow)", "panic(Local without type)",
                             "panic(index out of bounds)",
                             "panic(Invalid IsDefined parameter)",
                             "panic(Invalid NameOf parameter)"}

\* from_body: Self::new(files); assembler.assemble_seq(seq, scope, pool, None)?
\* An error returns from from_body ("failed"); a panic unwinds ("panicked").
AssembleBody ==
    /\ pc = "start"
    /\ \E shl \in {"wrap", "panic"} :
         LET st == AssembleSeq(NewAssembler(shl), body, NoLabel, <<>>, 0)
         IN /\ instructions' = st.instructions
            /\ labels' = st.labels
            /\ error' = st.err
            /\ pc' = CASE st.err = "ok" -> "assembled"
                       [] IsPanic(st.err) -> "panicked"
                       [] OTHER -> "failed"
    /\ UNCHANGED <<body, code>>
    /\ UNCHANGED diag

\* from_body without line 640
EmitNopOmitted ==
    /\ pc = "assembled"
    /\ pc' = "nop"
    /\ UNCHANGED <<body, instructions, labels, error, code>>
    /\ UNCHANGED diag

\* assembler.emit(Instr::Nop)
EmitNop ==
    /\ pc = "assembled"
    /\ instructions' = Append(instructions, Op("Nop", <<>>))
    /\ pc' = "nop"
    /\ UNCHANGED <<body, labels, error, code>>
    /\ UNCHANGED diag

\* Ok(assembler.into_code())
ReturnCode ==
    /\ pc = "nop"
    /\ code' = IntoCode(instructions, labels)
    /\ pc' = "done"
    /\ UNCHANGED <<body, instructions, labels, error>>
    /\ UNCHANGED diag

Next == AssembleBody \/ EmitNop \/ ReturnCode

Spec == Init /\ [][Next]_vars

(***************************************************************************)
(* The diagnostics of a compilation: those the diagnostic passes and the   *)
(* compiler report, and those made of an error by from_error.              *)
(***************************************************************************)
MaxSpan == 2

Spans == 0..MaxSpan

\* the causes from_body returns in the bodies above
Causes ==
    {"UnsupportedFeature(Break)", "UnsupportedFeature(cannot emit function call)",
     "UnsupportedFeature(For-in)", "UnexpectedToken(symbol)",
     "UnsupportedOperation(casting)"}

\* errors of the kinds from_error takes and of two it hands back
Errors ==
    {[kind |-> k, span |-> sp] : k \in {"SyntaxError", "CteError", "IoError", "PoolError"},
                                 sp \in Spans}
    \cup {[kind |-> "CompileError", cause |-> c, span |-> sp] : c \in Causes, sp \in Spans}

Reported ==
    {[kind |-> k, span |-> sp] : k \in DiagnosticKinds \ {"CompileError"}, sp \in Spans}
    \cup {[kind |-> "CompileError", cause |-> c, span |-> sp] : c \in Causes, sp \in Spans}

DiagInit ==
    /\ body = <<>>
    /\ pc = "start"
    /\ instructions = <<>>
    /\ labels = 0
    /\ error = "ok"
    /\ code = <<>>
    /\ \/ input \in Errors /\ diagnostic = NoDiagnostic
       \/ input = NoError /\ diagnostic \in Reported
    /\ level = "none"

\* Diagnostic::from_error
FromError ==
    /\ input # NoError
    /\ diagnostic = NoDiagnostic
    /\ level = "none"
    /\ LET r == FromErrorResult(input)
       IN IF r.ok
          THEN diagnostic' = r.val /\ level' = level
          ELSE diagnostic' = diagnostic /\ level' = "rejected"
    /\ UNCHANGED input
    /\ UNCHANGED asm

\* Diagnostic::log
Log ==
    /\ diagnostic # NoDiagnostic
    /\ level = "none"
    /\ level' = LogLevel(diagnostic)
    /\ UNCHANGED <<input, diagnostic>>
    /\ UNCHANGED asm

DiagNext == FromError \/ Log

DiagSpec == DiagInit /\ [][DiagNext]_vars

(***************************************************************************)
(* Properties.  The typed body is read through paths: the code of a child  *)
(* is 1, 2, 3 for an operand, 10 + j for the j-th statement of a body      *)
(* (20 + j in an else branch), 100 i + 1 and 100 i + 10 + j for the        *)
(* matcher and the statements of the i-th case, 1000 + j for the j-th      *)
(* argument.  An instruction's `at` is the path of the expression whose    *)
(* arm emitted it.                                                         *)
(***************************************************************************)
Root == [k |-> "Seq", exprs |-> body]

StmtCodes(es, base) == {base + 10 + j : j \in 1..Len(es)}

ChildCodes(e) ==
    CASE e.k = "Seq" -> StmtCodes(e.exprs, 0)
      [] e.k = "While" -> {1} \cup StmtCodes(e.body, 0)
      [] e.k = "If" -> {1} \cup StmtCodes(e.then, 0) \cup StmtCodes(e.else, 10)
      [] e.k = "Switch" ->
            {1} \cup StmtCodes(e.default, 0)
            \cup {100 * i + 1 : i \in 1..Len(e.cases)}
            \cup UNION {StmtCodes(e.cases[i].body, 100 * i) : i \in 1..Len(e.cases)}
      [] e.k = "Conditional" -> {1, 2, 3}
      [] e.k \in {"Assign", "ArrayElem"} -> {1, 2}
      [] e.k \in {"Cast", "Member"} -> {1}
      [] e.k = "Return" -> {c \in {1} : Len(e.val) = 1}
      [] e.k = "Declare" -> {c \in {1} : Len(e.init) = 1}
      [] e.k \in {"Call", "New"} -> {1000 + j : j \in 1..Len(e.args)}
      [] e.k = "MethodCall" -> {1} \cup {1000 + j : j \in 1..Len(e.args)}
      [] OTHER -> {}

Child(e, c) ==
    CASE c >= 1000 -> e.args[c - 1000]
      [] c >= 100 /\ c % 100 = 1 -> e.cases[c \div 100].matcher
      [] c >= 100 -> e.cases[c \div 100].body[(c % 100) - 10]
      [] c > 20 -> e.else[c - 20]
      [] c > 10 -> CASE e.k = "Seq" -> e.exprs[c - 10]
                     [] e.k = "While" -> e.body[c - 10]
                     [] e.k = "If" -> e.then[c - 10]
                     [] OTHER -> e.default[c - 10]
      [] OTHER ->
            CASE e.k \in {"While", "If", "Conditional"} /\ c = 1 -> e.cond
              [] e.k = "Conditional" /\ c = 2 -> e.true
              [] e.k = "Conditional" -> e.false
              [] e.k = "Assign" /\ c = 1 -> e.lhs
              [] e.k = "Assign" -> e.rhs
              [] e.k = "ArrayElem" /\ c = 2 -> e.idx
              [] e.k = "Return" -> e.val[1]
              [] e.k = "Declare" -> e.init[1]
              [] OTHER -> e.expr

RECURSIVE PathsOf(_)
PathsOf(e) ==
    {<<>>} \cup UNION {{<<c>> \o q : q \in PathsOf(Child(e, c))} : c \in ChildCodes(e)}

RECURSIVE NodeIn(_, _)
NodeIn(e, p) == IF p = <<>> THEN e ELSE NodeIn(Child(e, Head(p)), Tail(p))

Paths == PathsOf(Root)
Node(p) == NodeIn(Root, p)

IsPrefix(p, q) == Len(p) <= Len(q) /\ SubSeq(q, 1, Len(p)) = p

\* the positions of the instructions emitted by the arm of the expression at p
Own(p) == {n \in 1..Len(instructions) : instructions[n].at = p}
\* ... and by the expression at p and the expressions under it
Under(p) == {n \in 1..Len(instructions) : IsPrefix(p, instructions[n].at)}

Emitted == pc \in {"assembled", "nop", "done"}

TargetsOf(l) ==
    {n \in 1..Len(instructions) : IsTarget(instructions[n]) /\ instructions[n].l1 = l}

BranchLabels(i) == IF IsTarget(i) THEN {} ELSE {i.l1, i.l2} \ {NoLabel}

Dangling ==
    \E n \in 1..Len(instructions) :
        \E l \in BranchLabels(instructions[n]) : TargetsOf(l) = {}

\* C1: label closure: after a successful emission every label that is a
\* branch operand in the buffer is the label of exactly one Target of the
\* buffer.
C1_LabelClosure ==
    Emitted =>
        \A n \in 1..Len(instructions) :
            \A l \in BranchLabels(instructions[n]) : Cardinality(TargetsOf(l)) = 1

\* C2: a buffer with a dangling label (a branch operand without a Target)
\* handed to into_code makes from_body end with an error and no code,
\* instead of a Code<Offset> in which the branch carries some offset.
C2_DanglingIsError ==
    (pc = "done" /\ Dangling) => (error # "ok" /\ code = <<>>)

NonTargets == SelectSeq(instructions, LAMBDA i : ~IsTarget(i))

\* C3: resolution totality: the resolved code holds no Target, is as long
\* as the buffer less its Targets, and holds the buffer's other instructions
\* in their order with their opcodes.
C3_ResolutionTotality ==
    pc = "done" =>
        /\ \A n \in 1..Len(code) : code[n].op # "Target"
        /\ Len(code) = Len(instructions)
                       - Cardinality({n \in 1..Len(instructions) :
                                         IsTarget(instructions[n])})
        /\ Len(code) = Len(NonTargets)
        /\ \A n \in 1..Len(code) :
              /\ code[n].op = NonTargets[n].op
              /\ code[n].at = NonTargets[n].at
              /\ code[n].x = NonTargets[n].x

\* a resolved buffer that held several Targets, one of them between two
\* instructions
C3_Witness ==
    /\ pc = "done"
    /\ Len(code) >= 3
    /\ \E n \in 2..(Len(instructions) - 1) :
          /\ IsTarget(instructions[n])
          /\ ~IsTarget(instructions[n - 1])
          /\ ~IsTarget(instructions[n + 1])
    /\ Cardinality({n \in 1..Len(instructions) : IsTarget(instructions[n])}) >= 3

\* the n-th smallest element of a set of positions
Nth(S, n) == CHOOSE m \in S : Cardinality({k \in S : k < m}) = n - 1

Contiguous(S) == S # {} /\ Max(S) - Min(S) + 1 = Cardinality(S)

\* the instructions of the statements of the j-th case of the switch at p
CaseBodyInstrs(p, j) ==
    UNION {Under(p \o <<c>>) : c \in StmtCodes(Node(p).cases[j].body, 100 * j)}

\* C4: switch fall-through coalescing: in an emitted switch the SwitchLabel
\* of every case with an empty body carries the body label of the next case
\* with a non-empty body, and that label's one Target stands immediately
\* before the instructions of that body.
C4_Coalescing ==
    Emitted =>
        \A p \in Paths :
            (Node(p).k = "Switch" /\ Own(p) # {}) =>
                LET cases == Node(p).cases
                    SL == {n \in Own(p) : instructions[n].op = "SwitchLabel"}
                IN /\ Cardinality(SL) = Len(cases)
                   /\ \A i \in 1..Len(cases) :
                        LET Later == {j \in (i + 1)..Len(cases) :
                                         ~IsEmptyBody(cases[j].body)}
                        IN (IsEmptyBody(cases[i].body) /\ Later # {}) =>
                              LET j == Min(Later)
                                  bl == instructions[Nth(SL, j)].l2
                                  BI == CaseBodyInstrs(p, j)
                              IN /\ \A m \in i..j : instructions[Nth(SL, m)].l2 = bl
                                 /\ Cardinality(TargetsOf(bl)) = 1
                                 /\ \A t \in TargetsOf(bl) :
                                       /\ t \in Own(p)
                                       /\ t > Nth(SL, j)
                                       /\ BI # {} => t = Min(BI) - 1

\* a switch emitted with two empty cases in a row before a non-empty one
C4_Witness ==
    /\ Emitted
    /\ \E p \in Paths :
          /\ Node(p).k = "Switch"
          /\ Own(p) # {}
          /\ Len(Node(p).cases) >= 3
          /\ IsEmptyBody(Node(p).cases[1].body)
          /\ IsEmptyBody(Node(p).cases[2].body)
          /\ ~IsEmptyBody(Node(p).cases[3].body)
          /\ CaseBodyInstrs(p, 3) # {}

\* the while and switch expressions in whose body (case or default body for
\* a switch) the expression at q lies
Enclosing(q) ==
    {p \in Paths :
        /\ Len(p) < Len(q)
        /\ IsPrefix(p, q)
        /\ \/ Node(p).k = "While" /\ q[Len(p) + 1] > 10
           \/ Node(p).k = "Switch" /\ q[Len(p) + 1] > 10
                                   /\ q[Len(p) + 1] % 100 # 1}

Innermost(q) == CHOOSE p \in Enclosing(q) : \A r \in Enclosing(q) : Len(r) <= Len(p)

BareBreaks == {q \in Paths : Node(q).k = "Break" /\ Enclosing(q) = {}}

\* bodies of statements, identifiers and constants only: nothing but a Break
\* can fail in them
OnlyControl ==
    \A p \in Paths :
        \/ Node(p).k \in {"Seq", "While", "If", "Switch", "Break", "Return", "Constant"}
        \/ Node(p).k = "Ident" /\ Node(p).ref = "Local" /\ Node(p).ty # "Err"

\* C5: break lowering: after a successful emission every Break has emitted
\* exactly Jump(L), L the label of the Target that closes the innermost
\* while or switch around it; a body with a Break that no while or switch
\* encloses yields no code, and from_body returns UnsupportedFeature(Break)
\* for it (and only for such a body).
C5_BreakLowering ==
    /\ Emitted =>
          \A q \in Paths :
              Node(q).k = "Break" =>
                  /\ Enclosing(q) # {}
                  /\ Cardinality(Own(q)) = 1
                  /\ Own(Innermost(q)) # {}
                  /\ \A n \in Own(q) :
                        LET close == instructions[Max(Own(Innermost(q)))]
                        IN /\ instructions[n].op = "Jump"
                           /\ instructions[n].l2 = NoLabel
                           /\ IsTarget(close)
                           /\ instructions[n].l1 = close.l1
    /\ (pc # "start" /\ BareBreaks # {}) => (~Emitted /\ code = <<>>)
    /\ (pc # "start" /\ BareBreaks # {} /\ OnlyControl) =>
          (pc = "failed" /\ error = "UnsupportedFeature(Break)")
    /\ error = "UnsupportedFeature(Break)" => BareBreaks # {}

\* a Break lowered inside an if, with two constructs around it that take
\* a break
C5_Witness ==
    /\ Emitted
    /\ \E q \in Paths :
          /\ Node(q).k = "Break"
          /\ Cardinality(Enclosing(q)) >= 2
          /\ Own(q) # {}
          /\ Len(q) >= 2
          /\ Node(SubSeq(q, 1, Len(q) - 1)).k = "If"

IsInvoke(i) == i.op \in {"InvokeStatic", "InvokeVirtual"}

IsCallNode(e) == (e.k = "Call" /\ e.callable = "Function") \/ e.k = "MethodCall"

InvokesOf(p) == {n \in Own(p) : IsInvoke(instructions[n])}

ReceiverIsType(e) == e.expr.k = "Ident" /\ e.expr.ref \in {"ClassSym", "StructSym"}

\* force_static as the callers of assemble_call pass it
ForceStatic(e) == e.k = "MethodCall" /\ (ReceiverIsType(e) \/ e.expr.k = "Super")

\* C6: dispatch selection: a call emits one Invoke instruction, which is
\* InvokeVirtual exactly when force_static is false and the function is
\* neither final nor static nor native, and InvokeStatic otherwise.
C6_Dispatch ==
    \A p \in Paths :
        IsCallNode(Node(p)) =>
            /\ Cardinality(InvokesOf(p)) <= 1
            /\ (Emitted /\ Under(p) # {}) => Cardinality(InvokesOf(p)) = 1
            /\ \A n \in InvokesOf(p) :
                  LET f == Node(p).fun
                  IN /\ instructions[n].l1 # NoLabel
                     /\ instructions[n].op = "InvokeVirtual" <=>
                           (~ForceStatic(Node(p)) /\ ~f.final /\ ~f.static /\ ~f.native)

\* a native function, not forced static, called through a receiver
C6_Witness ==
    /\ Emitted
    /\ \E p \in Paths :
          /\ Node(p).k = "MethodCall"
          /\ ~ForceStatic(Node(p))
          /\ Node(p).fun.native /\ ~Node(p).fun.final /\ ~Node(p).fun.static
          /\ InvokesOf(p) # {}

\* the instruction at n as seen from the call at p: an instruction of the
\* the j-th argument is <<"arg", j>>, the call's own are their opcode
CallToken(p, n) ==
    LET i == instructions[n]
    IN CASE i.at = p /\ IsInvoke(i) -> <<"Invoke", 0>>
         [] i.at = p -> <<i.op, 0>>
         [] IsPrefix(p, i.at) /\ i.at[Len(p) + 1] > 1000 ->
               <<"arg", i.at[Len(p) + 1] - 1000>>
         [] OTHER -> <<"other", 0>>

RECURSIVE CallTokens(_, _, _)
\* the tokens of positions from..to, the instructions of one argument as one
CallTokens(p, from, to) ==
    IF from > to THEN <<>>
    ELSE LET t == CallToken(p, from)
             rest == CallTokens(p, from + 1, to)
         IN IF t[1] = "arg" /\ from < to /\ CallToken(p, from + 1) = t
            THEN rest
            ELSE <<t>> \o rest

RECURSIVE ArgTokens(_, _, _)
ArgTokens(param_flags, a, j) ==
    IF j > a THEN <<>>
    ELSE (IF param_flags[j]
          THEN <<<<"Skip", 0>>, <<"arg", j>>, <<"Target", 0>>>>
          ELSE <<<<"arg", j>>>>)
         \o ArgTokens(param_flags, a, j + 1)

\* the layout the call encoding has for a arguments and these parameters
ExpectedTokens(param_flags, a) ==
    <<<<"Invoke", 0>>>> \o ArgTokens(param_flags, a, 1)
    \o [n \in 1..(Len(param_flags) - a) |-> <<"Nop", 0>>]
    \o <<<<"ParamEnd", 0>>, <<"Target", 0>>>>

\* the position of the Target of the exit label of the Invoke at n
ExitOf(p, n) ==
    {m \in Own(p) : /\ m > n
                    /\ IsTarget(instructions[m])
                    /\ instructions[m].l1 = instructions[n].l1}

\* the label that a Skip at n skips to stands after the argument that
\* follows the Skip
SkipsPaired(p, from, to) ==
    \A n \in from..to :
        (instructions[n].at = p /\ instructions[n].op = "Skip") =>
            /\ instructions[n].l1 # instructions[from].l1
            /\ n + 1 <= to
            /\ LET arg == instructions[n + 1].at[Len(p) + 1]
                   A == {m \in from..to : IsPrefix(p \o <<arg>>, instructions[m].at)}
               IN /\ Contiguous(A)
                  /\ Min(A) = n + 1
                  /\ instructions[Max(A) + 1] =
                        Instr("Target", instructions[n].l1, NoLabel, 0, p)

\* C7: call argument encoding: after a successful emission the stream of a
\* call with a arguments and p >= a parameters is, from its Invoke on: each
\* argument in order, between Skip(l) and Target(l) when its parameter is
\* short-circuit and plain otherwise; p - a Nops; ParamEnd; the Target of
\* the Invoke's exit label; and nothing else.
C7_ArgumentEncoding ==
    Emitted =>
        \A p \in Paths :
            (IsCallNode(Node(p)) /\ InvokesOf(p) # {}) =>
                \A n \in InvokesOf(p) :
                    /\ Len(Node(p).args) <= Len(Node(p).fun.params)
                    /\ Cardinality(ExitOf(p, n)) = 1
                    /\ \A m \in ExitOf(p, n) :
                          /\ CallTokens(p, n, m)
                               = ExpectedTokens(Node(p).fun.params, Len(Node(p).args))
                          /\ SkipsPaired(p, n, m)

\* a call with a short-circuit and a plain argument and a default
C7_Witness ==
    /\ Emitted
    /\ \E p \in Paths :
          /\ IsCallNode(Node(p))
          /\ InvokesOf(p) # {}
          /\ Len(Node(p).args) = 2
          /\ Len(Node(p).fun.params) = 3
          /\ Node(p).fun.params[1] /\ ~Node(p).fun.params[2]

SignatureError == "UnsupportedFeature(cannot emit function call)"

\* arguments whose own emission cannot fail
PlainArgs(e) ==
    \A j \in 1..Len(e.args) :
        \/ e.args[j].k = "Constant"
        \/ e.args[j].k = "Ident" /\ e.args[j].ref \in {"Local", "Param"}

\* C8: a call with more arguments than parameters is rejected: from_body
\* returns the error and no code, and the buffer holds neither ParamEnd nor
\* the exit Target of that call.
C8_TooManyArguments ==
    \A p \in Paths :
        ( /\ IsCallNode(Node(p))
          /\ Len(Node(p).args) > Len(Node(p).fun.params)
          /\ InvokesOf(p) # {} ) =>
            /\ pc = "failed"
            /\ error # "ok"
            /\ code = <<>>
            /\ PlainArgs(Node(p)) => error = SignatureError
            /\ \A n \in Own(p) : instructions[n].op # "ParamEnd"
            /\ \A n \in InvokesOf(p) : TargetsOf(instructions[n].l1) = {}

\* two arguments for one parameter: the first argument was emitted
C8_Witness ==
    /\ pc = "failed"
    /\ error = SignatureError
    /\ \E p \in Paths :
          /\ IsCallNode(Node(p))
          /\ Len(Node(p).args) = 2
          /\ Len(Node(p).fun.params) = 1
          /\ InvokesOf(p) # {}
          /\ Under(p \o <<1001>>) # {}

\* an rvalue reference as the spec has it: an expression of type ScriptRef
\* that is not AsRef(x) with x an l-value
RvalueRef(e) ==
    /\ TypeOf(e) = "ScriptRef"
    /\ ~(IsAsRefCall(e) /\ Len(e.args) >= 1 /\ ~IsPrvalue(e.args[1]))

\* C9: invoke_flags is a 16-bit mask in which bit n is set exactly when
\* argument n is an rvalue reference (stated for the positions n < 16 that
\* the mask has).
C9_InvokeFlags ==
    \A p \in Paths :
        IsCallNode(Node(p)) =>
            \A n \in InvokesOf(p) :
                /\ instructions[n].x < Pow2(U16Bits)
                /\ \A k \in 0..(Len(Node(p).args) - 1) :
                      k < U16Bits =>
                          (BitSet(instructions[n].x, k) <=> RvalueRef(Node(p).args[k + 1]))

\* C10: method call receiver: with a class or struct symbol as receiver the
\* call is emitted as a static call with no Context, no receiver
\* instructions and no context Target; with any other receiver the emission
\* is Context(ctx), the receiver, the call encoding, Target(ctx), static
\* dispatch being forced exactly for Super, which is emitted as This.
C10_Receiver ==
    Emitted =>
        \A p \in Paths :
            (Node(p).k = "MethodCall" /\ Under(p) # {}) =>
                LET e == Node(p)
                    first == Min(Under(p))
                    last == Max(Under(p))
                    R == Under(p \o <<1>>)
                    Ctx == {n \in Own(p) : instructions[n].op = "Context"}
                IN /\ Contiguous(Under(p))
                   /\ Cardinality(InvokesOf(p)) = 1
                   /\ \A inv \in InvokesOf(p) :
                        IF ReceiverIsType(e)
                        THEN /\ Ctx = {}
                             /\ R = {}
                             /\ inv = first
                             /\ instructions[inv].op = "InvokeStatic"
                             /\ instructions[last] =
                                   Instr("Target", instructions[inv].l1, NoLabel, 0, p)
                        ELSE /\ Ctx = {first}
                             /\ Contiguous(R)
                             /\ Min(R) = first + 1
                             /\ inv = Max(R) + 1
                             /\ instructions[last - 1] =
                                   Instr("Target", instructions[inv].l1, NoLabel, 0, p)
                             /\ instructions[last] =
                                   Instr("Target", instructions[first].l1, NoLabel, 0, p)
                             /\ instructions[first].l1 # instructions[inv].l1
                             /\ e.expr.k = "Super" =>
                                   /\ instructions[inv].op = "InvokeStatic"
                                   /\ Cardinality(R) = 1
                                   /\ \A r \in R : instructions[r].op = "This"
                             /\ e.expr.k # "Super" =>
                                   (instructions[inv].op = "InvokeVirtual" <=>
                                       (~e.fun.final /\ ~e.fun.static /\ ~e.fun.native))

\* a method called on super whose function is neither final, static nor
\* native
C10_Witness ==
    /\ Emitted
    /\ \E p \in Paths :
          /\ Node(p).k = "MethodCall"
          /\ Node(p).expr.k = "Super"
          /\ ~Node(p).fun.final /\ ~Node(p).fun.static /\ ~Node(p).fun.native
          /\ InvokesOf(p) # {}

ArgCodes(e) == [j \in 1..Len(e.args) |-> 1000 + j]

\* the children that are the operands of the instruction at n, in source
\* order; <<>> for an instruction that is no operator opcode
OperandCodes(n) ==
    LET i == instructions[n]
        e == Node(i.at)
    IN CASE e.k = "Assign" /\ i.op = "Assign" -> <<1, 2>>
         [] e.k = "Declare" /\ i.op = "Assign" /\ Len(e.init) = 1 -> <<1>>
         [] e.k = "Return" /\ i.op = "Return" /\ Len(e.val) = 1 -> <<1>>
         [] e.k = "Cast" /\ i.op = "DynamicCast" -> <<1>>
         [] e.k = "ArrayElem" /\ i.op \in {"ArrayElement", "StaticArrayElement"} ->
               <<1, 2>>
         [] e.k = "New" /\ i.op = "Construct" -> ArgCodes(e)
         [] e.k = "Member" /\ i.op = "StructField" -> <<1>>
         [] e.k \in {"If", "While"} /\ i.op = "JumpIfFalse" -> <<1>>
         [] e.k = "Conditional" /\ i.op = "Conditional" -> <<1, 2, 3>>
         [] e.k = "Switch" /\ i.op = "Switch" -> <<1>>
         [] e.k = "Switch" /\ i.op = "SwitchLabel" ->
               <<100 * Cardinality({m \in Own(i.at) :
                                       /\ m <= n
                                       /\ instructions[m].op = "SwitchLabel"}) + 1>>
         [] IsCallNode(e) /\ IsInvoke(i) -> ArgCodes(e)
         [] e.k = "Call" /\ e.callable = "Intrinsic" /\ e.op # "NameOf" -> ArgCodes(e)
         [] OTHER -> <<>>

\* the instructions of the j-th operand of the opcode at n
OperandInstrs(n, j) == Under(instructions[n].at \o <<OperandCodes(n)[j]>>)

\* the slot of a declared local, which the Declare arm itself emits as the
\* first operand of its Assign
OwnSlot(n) ==
    {m \in {n + 1} : /\ Node(instructions[n].at).k = "Declare"
                     /\ m <= Len(instructions)
                     /\ instructions[m] = Op("Local", instructions[n].at)}

\* every operand is one block of instructions after the opcode, and the
\* blocks stand in source order
OperandsInOrder(n) ==
    LET k == Len(OperandCodes(n))
    IN /\ \A j \in 1..k : Contiguous(OperandInstrs(n, j)) /\ Min(OperandInstrs(n, j)) > n
       /\ \A j \in 1..(k - 1) : Max(OperandInstrs(n, j)) < Min(OperandInstrs(n, j + 1))

\* C11 as stated: prefix order: the operands of every operator opcode follow
\* the opcode contiguously: the first right after the opcode, each next one
\* right after the one before.
C11_PrefixContiguous ==
    Emitted =>
        \A n \in 1..Len(instructions) :
            LET k == Len(OperandCodes(n))
            IN /\ OperandsInOrder(n)
               /\ k >= 1 => Min(OperandInstrs(n, 1)) = n + 1 + Cardinality(OwnSlot(n))
               /\ \A j \in 1..(k - 1) :
                     Min(OperandInstrs(n, j + 1)) = Max(OperandInstrs(n, j)) + 1

\* C11 amended: the operands of every operator opcode follow the opcode in
\* source order, each as one block, and from the opcode to the end of its
\* last operand the buffer holds only these blocks and the Skip and Target
\* that the opcode's own expression puts around an operand (a short-circuit
\* argument of a call, the false branch of a Conditional).
C11_PrefixOrder ==
    Emitted =>
        \A n \in 1..Len(instructions) :
            LET k == Len(OperandCodes(n))
            IN /\ OperandsInOrder(n)
               /\ k >= 1 =>
                     \A m \in (n + 1)..Max(OperandInstrs(n, k)) :
                         \/ \E j \in 1..k : m \in OperandInstrs(n, j)
                         \/ m \in OwnSlot(n)
                         \/ /\ instructions[m].at = instructions[n].at
                            /\ instructions[m].op \in {"Skip", "Target"}

\* a call emitted with a short-circuit argument before a plain one
C11_Witness ==
    /\ Emitted
    /\ \E n \in 1..Len(instructions) :
          /\ IsInvoke(instructions[n])
          /\ Len(OperandCodes(n)) = 2
          /\ instructions[n + 1].op = "Skip"
          /\ Min(OperandInstrs(n, 1)) = n + 2

\* the labels an instruction holds, as branch operand or as a Target's label
LabelsIn(i) == {i.l1, i.l2} \ {NoLabel}

LabelsInBuffer == UNION {LabelsIn(instructions[n]) : n \in 1..Len(instructions)}

\* C12: labels are dense, 0-based and unique: every label in the buffer is
\* smaller than the label counter, after a successful emission the labels
\* in the buffer are exactly 0 .. counter - 1, no label is the label of
\* two Targets, and every label that into_code looks up is an index of
\* its location table.
C12_LabelsDense ==
    /\ LabelsInBuffer \subseteq 0..(labels - 1)
    /\ Emitted => LabelsInBuffer = 0..(labels - 1)
    /\ \A l \in LabelsInBuffer : Cardinality(TargetsOf(l)) <= 1
    /\ pc = "done" => LabelsInBuffer \subseteq DOMAIN Locations(instructions, labels)

\* a resolved body in which nested constructs minted six labels or more
C12_Witness ==
    /\ pc = "done"
    /\ labels >= 6
    /\ LabelsInBuffer = 0..(labels - 1)
    /\ \E n \in 1..Len(code) : code[n].n = 2

\* C13: terminating Nop: when from_body returns Ok, the last instruction of
\* the labelled buffer is Nop and so is the last instruction of the
\* resolved code; the code of an empty body is exactly one Nop.
C13_TerminatingNop ==
    pc = "done" =>
        /\ error = "ok"
        /\ Len(instructions) >= 1
        /\ instructions[Len(instructions)] = Op("Nop", <<>>)
        /\ Len(code) >= 1
        /\ code[Len(code)].op = "Nop"
        /\ code[Len(code)].n = 0
        /\ body = <<>> => (Len(code) = 1 /\ Len(instructions) = 1)

\* the empty body, resolved
C13_Witness == pc = "done" /\ body = <<>> /\ Len(code) = 1 /\ code[1].op = "Nop"

\* the declarations of a static array local without initializer
StaticArrayDecls ==
    {p \in Paths : /\ Node(p).k = "Declare"
                   /\ Len(Node(p).init) = 0
                   /\ Len(Node(p).typ) = 1
                   /\ Node(p).typ[1].t = "StaticArray"}

ElemOf(p) == Node(p).typ[1].elem
SizeOf(p) == Node(p).typ[1].size

\* the zero value the table of default initialization gives a type, "None"
\* where it gives none
ZeroOf(typ) ==
    CASE typ.t = "Prim" -> PrimInitializer(typ.name)
      [] typ.t = "Struct" -> "Construct"
      [] typ.t = "Enum" /\ typ.members > 0 -> "EnumConst"
      [] typ.t = "Ref" -> "Null"
      [] typ.t = "WeakRef" -> "WeakRefNull"
      [] OTHER -> "None"

\* the instructions of the declaration at p are the five of each index, in
\* ascending order of the index
FivePerIndex(p) ==
    /\ Cardinality(Own(p)) = 5 * SizeOf(p)
    /\ Own(p) # {} => Contiguous(Own(p))
    /\ \A i \in 0..(SizeOf(p) - 1) :
          LET n == Min(Own(p)) + 5 * i
          IN /\ instructions[n] = Op("Assign", p)
             /\ instructions[n + 1] = Op("StaticArrayElement", p)
             /\ instructions[n + 2] = Op("Local", p)
             /\ instructions[n + 3] = Instr("U32Const", NoLabel, NoLabel, i, p)
             /\ instructions[n + 4] = Op(ZeroOf(ElemOf(p)), p)

Rejected(p) ==
    /\ pc = "failed"
    /\ error = "UnsupportedFeature(initializing a static array with another array)"
    /\ code = <<>>
    /\ Own(p) = {}

\* C14 as stated: a static array local declared without initializer emits
\* the five instructions of each index, 5 * size in all, unless the element
\* type is an array, which is rejected.
C14_FivePerIndexAlways ==
    pc # "start" =>
        \A p \in StaticArrayDecls :
            IF ElemOf(p).t \in {"Array", "StaticArray"}
            THEN Rejected(p)
            ELSE Emitted /\ FivePerIndex(p)

\* C14 amended: the five instructions of each index are emitted when the
\* element type has a zero value; for an element type without one (an enum
\* without members, a class, a script reference, a variant) the declaration
\* emits nothing; an array as element type is rejected.
C14_StaticArrayInit ==
    pc # "start" =>
        \A p \in StaticArrayDecls :
            CASE ElemOf(p).t \in {"Array", "StaticArray"} -> Rejected(p)
              [] ZeroOf(ElemOf(p)) = "None" -> Emitted /\ Own(p) = {}
              [] OTHER -> Emitted /\ FivePerIndex(p)

\* a static array of two or more elements initialized, a statement after it
C14_Witness ==
    /\ Emitted
    /\ \E p \in StaticArrayDecls :
          /\ SizeOf(p) >= 2
          /\ Cardinality(Own(p)) = 5 * SizeOf(p)
          /\ Len(instructions) > Max(Own(p))
          /\ instructions[Max(Own(p)) + 1].op = "Return"

ShapeError(u) == "UnsupportedFeature(" \o FeatureName(u) \o ")"

IsNameOf(e) == e.k = "Call" /\ e.callable = "Intrinsic" /\ e.op = "NameOf"

\* the expressions of a shape that is not emittable
ShapesIn == {p \in Paths : Node(p).k \in Unsupported}

\* under the arguments of a class allocation or of NameOf, which the
\* emitter does not assemble
NotAssembled(p) ==
    \E n \in 0..(Len(p) - 1) :
        LET e == Node(SubSeq(p, 1, n))
        IN (e.k = "New" /\ e.type = "Class") \/ IsNameOf(e)

\* bodies in which only a shape that is not emittable can fail
OnlyShapesFail ==
    \A p \in Paths :
        LET e == Node(p)
        IN \/ e.k \in Unsupported
           \/ e.k \in {"Seq", "While", "If", "Switch", "Return", "Constant", "Assign",
                       "Conditional", "This", "Break"} /\ BareBreaks = {}
           \/ e.k = "Ident" /\ e.ref = "Local" /\ e.ty # "Err"
           \/ e.k = "New" /\ e.type \in {"Class", "Struct"}
           \/ e.k = "Declare" /\ Len(e.init) = 1
           \/ IsCallNode(e) /\ Len(e.args) <= Len(e.fun.params) /\ Len(e.args) <= U16Bits
           \/ IsNameOf(e) /\ Len(e.args) = 1 /\ TypeOf(e.args[1]) \in {"Class", "Enum", "Struct"}

NonFatalKinds ==
    {"ReplaceMethodConflict", "FieldConflict", "Deprecation", "NonClassRefDeprecation",
     "ClassWithNoIndirectionDeprecation", "UnusedLocal", "MissingReturn",
     "AddMethodConflict"}

FatalKinds ==
    {"StatementFallthrough", "InvalidUseOfTemporary", "SyntaxError", "CompileError",
     "CteError"}

\* C16: diagnostic severity: is_fatal is false exactly for the eight kinds
\* of NonFatalKinds and true for the five of FatalKinds, which are all the
\* kinds there are; log reports at error level exactly the fatal
\* diagnostics and at warning level the others; a diagnostic that
\* from_error built is fatal.
C16_Severity ==
    /\ NonFatalKinds \cup FatalKinds = DiagnosticKinds
    /\ NonFatalKinds \cap FatalKinds = {}
    /\ diagnostic # NoDiagnostic =>
          /\ diagnostic.kind \in DiagnosticKinds
          /\ IsFatal(diagnostic) <=> diagnostic.kind \in FatalKinds
          /\ ~IsFatal(diagnostic) <=> diagnostic.kind \in NonFatalKinds
          /\ level \in {"none", "error", "warn"}
          /\ level = "error" => diagnostic.kind \in FatalKinds
          /\ level = "warn" => diagnostic.kind \in NonFatalKinds
          /\ input # NoError => (IsFatal(diagnostic) /\ level # "warn")
    /\ level = "rejected" =>
          (diagnostic = NoDiagnostic /\ input.kind \notin DiagnosticKinds)

\* a missing return, logged as a warning
C16_Witness ==
    /\ diagnostic # NoDiagnostic
    /\ diagnostic.kind = "MissingReturn"
    /\ level = "warn"

\* the index in the resolved code of the instruction at position n
CodeIndex(n) == n - Cardinality({m \in 1..n : IsTarget(instructions[m])})

\* the location a resolved branch of the instruction at n leads to: its own
\* location and its first offset
LandsAt(n) == LocationOf(instructions, n) + code[CodeIndex(n)].o1

\* the first instruction after position n that is not a Target
NextInstr(n) == Min({m \in (n + 1)..Len(instructions) : ~IsTarget(instructions[m])})

BodyInstrs(p) == UNION {Under(p \o <<c>>) : c \in StmtCodes(Node(p).body, 0)}

WhileEncoding(p) ==
    LET first == Min(Under(p))
        last == Max(Under(p))
        loop == instructions[first].l1
        exit == instructions[last].l1
        C == Under(p \o <<1>>)
    IN /\ Contiguous(Under(p))
       /\ Own(p) = {first, first + 1, last - 1, last}
       /\ loop # exit
       /\ instructions[first] = Instr("Target", loop, NoLabel, 0, p)
       /\ instructions[first + 1] = Instr("JumpIfFalse", exit, NoLabel, 0, p)
       /\ Contiguous(C) /\ Min(C) = first + 2
       /\ \A n \in BodyInstrs(p) : Max(C) < n /\ n < last - 1
       /\ Under(p) = Own(p) \cup C \cup BodyInstrs(p)
       /\ instructions[last - 1] = Instr("Jump", loop, NoLabel, 0, p)
       /\ instructions[last] = Instr("Target", exit, NoLabel, 0, p)
       /\ LandsAt(last - 1) = LocationOf(instructions, first + 1)
       /\ LandsAt(first + 1) = LocationOf(instructions, NextInstr(last - 1))
       /\ LandsAt(first + 1) > LocationOf(instructions, last - 1)

\* an if without else: the guard, the condition, the branch, the Target of
\* the guard's label, and no Jump of its own
IfEncoding(q) ==
    LET first == Min(Under(q))
        last == Max(Under(q))
        C == Under(q \o <<1>>)
        T == UNION {Under(q \o <<c>>) : c \in StmtCodes(Node(q).then, 0)}
    IN /\ Contiguous(Under(q))
       /\ Own(q) = {first, last}
       /\ instructions[first] =
             Instr("JumpIfFalse", instructions[last].l1, NoLabel, 0, q)
       /\ instructions[last] = Instr("Target", instructions[first].l1, NoLabel, 0, q)
       /\ Contiguous(C) /\ Min(C) = first + 1
       /\ \A n \in T : Max(C) < n /\ n < last
       /\ Under(q) = Own(q) \cup C \cup T

\* while c { if d { break; } }
WhileIfBreak == <<While(Cond, <<If(Cond, <<Break>>)>>)>>

\* the opcodes and labels of the buffer
Shape2(n) == <<instructions[n].op, instructions[n].l1>>

\* C17: while encoding: a while loop emits Target(loop), JumpIfFalse(exit),
\* the condition, the body, Jump(loop), Target(exit) in that order; in the
\* resolved code the closing Jump lands on the JumpIfFalse and the
\* JumpIfFalse on the first instruction after the closing Jump; an if
\* without else in the body emits its guard, condition, branch and Target
\* and no trampoline; `while c { if d { break; } }` is Target(L1),
\* JumpIfFalse(L2), c, JumpIfFalse(L3), d, Jump(L2), Target(L3), Jump(L1),
\* Target(L2).
C17_WhileEncoding ==
    pc = "done" =>
        /\ \A p \in Paths :
              (Node(p).k = "While" /\ Under(p) # {}) =>
                  /\ WhileEncoding(p)
                  /\ \A q \in Paths :
                        ( /\ IsPrefix(p, q)
                          /\ Node(q).k = "If"
                          /\ ~Node(q).hasElse
                          /\ Under(q) # {} ) => IfEncoding(q)
        /\ body = WhileIfBreak =>
              \E L1, L2, L3 \in 0..(labels - 1) :
                  /\ Cardinality({L1, L2, L3}) = 3
                  /\ [n \in 1..(Len(instructions) - 1) |-> Shape2(n)] =
                        << <<"Target", L1>>, <<"JumpIfFalse", L2>>, <<"Local", NoLabel>>,
                           <<"JumpIfFalse", L3>>, <<"Local", NoLabel>>, <<"Jump", L2>>,
                           <<"Target", L3>>, <<"Jump", L1>>, <<"Target", L2>> >>

\* the scenario, resolved
C17_Witness ==
    /\ pc = "done"
    /\ body = WhileIfBreak
    /\ Len(code) = 7
    /\ code[6].o1 < 0

\* the instruction at n is the Jump that closes the while loop at its path,
\* and t the position of that loop's first instruction, its loop Target
ClosesLoop(n, t) ==
    LET p == instructions[n].at
    IN /\ instructions[n].op = "Jump"
       /\ Node(p).k = "While"
       /\ n = Max(Own(p)) - 1
       /\ t = Min(Own(p))

\* the resolved offset of the operand of the instruction at n that is label l
OffsetsOf(n, l) ==
    (IF instructions[n].l1 = l THEN {code[CodeIndex(n)].o1} ELSE {})
    \cup (IF instructions[n].l2 = l THEN {code[CodeIndex(n)].o2} ELSE {})

\* C18: forward-only branches: after a successful emission a branch operand
\* whose Target stands before the branch is the loop label of the Jump that
\* closes a while loop; the Target of every other branch operand that has
\* one stands after the branch, and its resolved offset is not negative.
C18_ForwardOnly ==
    /\ Emitted =>
          \A n \in 1..Len(instructions) :
              \A l \in BranchLabels(instructions[n]) :
                  \A t \in TargetsOf(l) :
                      /\ t # n
                      /\ t < n => ClosesLoop(n, t)
    /\ pc = "done" =>
          \A n \in 1..Len(instructions) :
              \A l \in BranchLabels(instructions[n]) :
                  \A t \in TargetsOf(l) :
                      \A o \in OffsetsOf(n, l) :
                          IF t > n THEN o > 0 ELSE o < 0

\* a switch in a while loop, resolved: the closing Jump leads back, the
\* labels of a SwitchLabel lead on
C18_Witness ==
    /\ pc = "done"
    /\ \E n \in 1..Len(instructions) :
          \E t \in TargetsOf(instructions[n].l1) :
              /\ instructions[n].op = "Jump"
              /\ t < n
              /\ code[CodeIndex(n)].o1 < 0
    /\ \E n \in 1..Len(instructions) :
          /\ instructions[n].op = "SwitchLabel"
          /\ TargetsOf(instructions[n].l2) # {}
          /\ code[CodeIndex(n)].o1 > 0
          /\ code[CodeIndex(n)].o2 > 0
=============================================================================
